---- MODULE Spec2Model ----
(***************************************************************************)
(* A model of ergothic's export pipeline (src/ergothic/src/export.rs):     *)
(* the Exporter trait's one operation, export, as implemented by           *)
(* DebugExporter, which merges a batch of named accumulators into its own  *)
(* MeasureRegistry and prints the aggregate to stdout.                     *)
(*                                                                         *)
(* export.rs uses measure::MeasureRegistry, measure::Measures and the      *)
(* accumulator type through find / register / accumulator / measures /     *)
(* slice / merge / value / uncertainty / num_of_samples.  Those modules    *)
(* are not part of the sources at hand; their operators below follow the   *)
(* registry and accumulator contract of the specification (sections 3,     *)
(* 4.1 and the glossary).                                                  *)
(*                                                                         *)
(* Sequences are 1-based here where the Rust slices are 0-based.           *)
(***************************************************************************)
EXTENDS Integers, Sequences, FiniteSets

\* ------------------------------------------------------------------ bounds

\* Longest batch handed to one export call.
MaxBatchLen == 2
\* Samples handed to the exporter in one behaviour, over all names.
MaxSamples == 4
\* Measurement names the simulation engine reports under.
MeasureNames == {"energy", "spin"}
\* Values one sample can take.
SampleValues == {-1, 0, 1}
\* The samples behind one reported snapshot (none, one, or two that cancel).
SampleRuns == {<<>>, <<1>>, <<-1, 1>>}
\* The runs of the batches that vary the sample values rather than the
\* shape of the batch (a zero sample included).
ValueRuns == {<<>>, <<0>>, <<1>>, <<-1, 1>>}
\* The runs of the batches that several workers hand over: what matters
\* there is who calls and how long the batch is.
WorkerRuns == {<<1>>}
\* Who may call export: the simulation engine alone, or the engine and a
\* second worker sharing the exporter.
OneCaller == {"engine"}
Workers == {"engine", "worker"}
\* Wall-clock readings (seconds); the exporter is constructed at StartClock.
Clock == {0, 1, 2}
StartClock == {1}

\* ------------------------------------------------------- accumulator algebra

\* The identity state of the accumulator: no samples folded in.
ZeroAcc == [n |-> 0, s1 |-> 0, s2 |-> 0]

\* Folding one sample into an accumulator.
Consume(acc, x) == [n |-> acc.n + 1, s1 |-> acc.s1 + x, s2 |-> acc.s2 + x * x]

\* Folding a run of samples, first to last.
RECURSIVE ConsumeAll(_, _)
ConsumeAll(acc, run) ==
    IF run = <<>> THEN acc ELSE ConsumeAll(Consume(acc, Head(run)), Tail(run))

\* acc.merge(other): the accumulator of the union of the two sample sets.
Merge(acc, other) ==
    [n |-> acc.n + other.n, s1 |-> acc.s1 + other.s1, s2 |-> acc.s2 + other.s2]

\* acc.num_of_samples()
NumOfSamples(acc) == acc.n

\* ------------------------------------------------------------ f64 quantities
\* An f64 is NaN, an infinity, or a finite number kept as a reduced fraction
\* with a positive denominator.

RECURSIVE Gcd(_, _)
Gcd(a, b) == IF b = 0 THEN a ELSE Gcd(b, a % b)

Abs(x) == IF x < 0 THEN -x ELSE x

NaN == [k |-> "nan", num |-> 0, den |-> 0]
Inf(sign) == [k |-> "inf", num |-> sign, den |-> 0]
Fin(num, den) ==
    LET g == Gcd(Abs(num), Abs(den))
        s == IF den < 0 THEN -1 ELSE 1
    IN  [k |-> "fin", num |-> (s * num) \div g, den |-> (s * den) \div g]

\* IEEE-754 division of two integers taken as f64: x/0 is NaN for x = 0 and
\* a signed infinity otherwise.
Ratio(num, den) ==
    IF den = 0
    THEN IF num = 0 THEN NaN ELSE Inf(IF num < 0 THEN -1 ELSE 1)
    ELSE Fin(num, den)

\* a / b on f64 values.
FDiv(a, b) ==
    IF a.k = "nan" \/ b.k = "nan" THEN NaN
    ELSE IF a.k = "inf" THEN (IF b.k = "inf" THEN NaN
                              ELSE Inf(IF b.num < 0 THEN -a.num ELSE a.num))
    ELSE IF b.k = "inf" THEN Fin(0, 1)
    ELSE Ratio(a.num * b.den, a.den * b.num)

\* x.abs()
FAbs(a) == IF a.k = "nan" THEN NaN ELSE [a EXCEPT !.num = Abs(a.num)]

\* a * a
FSquare(a) == IF a.k = "nan" THEN NaN
              ELSE IF a.k = "inf" THEN Inf(1)
              ELSE Fin(a.num * a.num, a.den * a.den)

\* acc.value(): the current estimate, the mean of the samples (0/0 = NaN for
\* an accumulator without samples).
Value(acc) == Ratio(acc.s1, acc.n)

\* acc.uncertainty(): the standard error of the mean.  The model keeps its
\* square, (n*s2 - s1^2) / (n^2 * (n-1)); squaring is one-to-one on the
\* non-negative values an uncertainty takes.
UncertaintySq(acc) ==
    Ratio(acc.n * acc.s2 - acc.s1 * acc.s1, acc.n * acc.n * (acc.n - 1))

\* format!("{}", x) of an f64: Rust prints NaN, inf / -inf or the shortest
\* decimal that reads back as x, so distinct values give distinct texts.
Display(x) ==
    IF x.k = "nan" THEN <<"NaN">>
    ELSE IF x.k = "inf" THEN (IF x.num < 0 THEN <<"-inf">> ELSE <<"inf">>)
    ELSE <<"num", x.num, x.den>>

\* format!("{}", n) of an unsigned integer.
DisplayCount(n) == <<"int", n>>

\* ---------------------------------------------------------------- registry
\* A registry (and a batch: both are Measures) is a sequence of named
\* accumulators [name, acc] in insertion order.

\* registry.slice(): the entries in insertion order.
Slice(reg) == reg

NamesOf(reg) == [k \in 1..Len(reg) |-> reg[k].name]

\* registry.find(name): Option<usize> as a set with at most one index, the
\* position of the first entry registered under the name.
Find(reg, name) ==
    {k \in 1..Len(reg) :
        /\ reg[k].name = name
        /\ \A j \in 1..(k - 1) : reg[j].name # name}

\* registry.register(name): a new zero accumulator at the end; its index is
\* the new length.
Register(reg, name) == Append(reg, [name |-> name, acc |-> ZeroAcc])

\* registry.accumulator(idx) is defined for the indices of the registry
\* only; any other index is the out-of-bounds failure.
InBounds(reg, idx) == idx \in 1..Len(reg)

\* ------------------------------------------------------------------- state

VARIABLES
    aggregated,          \* DebugExporter.aggregated
    creation_timestamp,  \* DebugExporter.creation_timestamp
    measures,            \* the batch borrowed by the call in progress
    pc,                  \* where the call in progress stands; "idle" between calls
    i,                   \* position of the for loop in measures.slice()
    samples_processed,   \* the local of export
    stdout,              \* the writes the call in progress has attempted
    failure,             \* what failed in the current or last call, "none" if nothing
    result,              \* how the last call ended: "none" (no call yet), "Ok", "Err", "panic"
    given,               \* history: the batch as the caller handed it over
    seen,                \* history: names in the order first handed over
    handed,              \* history: per name, sample counts handed over, summed
    pool,                \* history: per name and value, samples handed over
    callers,             \* the callers inside export, holders of &mut self
    served               \* history: the caller whose call ended last

vars == <<aggregated, creation_timestamp, measures, pc, i, samples_processed,
          stdout, failure, result, given, seen, handed, pool, callers, served>>

exporter == <<aggregated, creation_timestamp>>
locals == <<measures, i, samples_processed>>
hist == <<given, seen, handed, pool, served>>

\* ------------------------------------------------- the steps of export(..)

\* DebugExporter::new(): an empty registry and the current time.
NewExporter(now) == [aggregated |-> <<>>, creation_timestamp |-> now]

\* `for measure in measures.slice()`: the loop visits the batch in order.
NextMeasureReversed(ms, k) == Slice(ms)[Len(Slice(ms)) + 1 - k]
NextMeasure(ms, k) == Slice(ms)[k]

\* The loop ends after the last entry of the batch.
LoopDoneAfterFirst(ms, k) == k > 1 \/ k > Len(Slice(ms))
LoopDone(ms, k) == k > Len(Slice(ms))

\* `match self.aggregated.find(&measure.name) { Some(idx) => idx,
\*  None => self.aggregated.register(measure.name.clone()) }`:
\* the registry afterwards and measure_idx.
LookupAlwaysRegister(reg, name) ==
    [reg |-> Register(reg, name), idx |-> Len(reg) + 1]
LookupOffByOne(reg, name) ==
    IF Find(reg, name) # {}
    THEN [reg |-> reg, idx |-> CHOOSE idx \in Find(reg, name) : TRUE]
    ELSE [reg |-> Register(reg, name), idx |-> Len(reg) + 2]
LookupOrCreate(reg, name) ==
    IF Find(reg, name) # {}
    THEN [reg |-> reg, idx |-> CHOOSE idx \in Find(reg, name) : TRUE]
    ELSE [reg |-> Register(reg, name), idx |-> Len(reg) + 1]

\* `self.aggregated.accumulator(measure_idx).merge(measure.acc.clone())`
MergeOverwrites(reg, idx, acc) == [reg EXCEPT ![idx].acc = acc]
MergeIntoHead(reg, idx, acc) == [reg EXCEPT ![1].acc = Merge(@, acc)]
MergeInto(reg, idx, acc) == [reg EXCEPT ![idx].acc = Merge(@, acc)]

\* The batch after one iteration: merge takes a clone of measure.acc, and
\* measures is a shared borrow, so the batch is as it was.
MeasuresDrained(ms, k) == [ms EXCEPT ![k].acc = ZeroAcc]
MeasuresAfterMerge(ms, k) == ms

\* `samples_processed =
\*      self.aggregated.accumulator(measure_idx).num_of_samples() as usize`
RECURSIVE SamplesProcessedTotal(_, _)
SamplesProcessedTotal(reg, idx) ==
    IF reg = <<>> THEN 0
    ELSE NumOfSamples(Head(reg).acc) + SamplesProcessedTotal(Tail(reg), idx)
SamplesProcessed(reg, idx) == NumOfSamples(reg[idx].acc)

\* `let mut samples_processed: usize = 0;`: the figure starts from 0 in
\* every call, whatever the registry holds.
SamplesProcessedOfLast(reg) ==
    IF reg = <<>> THEN 0 ELSE NumOfSamples(reg[Len(reg)].acc)
SamplesProcessedAtEntry(reg) == 0

\* DebugExporter::pretty_table: one row per entry of the measures it is
\* given, in slice order.
PrettyTableZeroGuard(ms) ==
    [k \in 1..Len(Slice(ms)) |->
        [name |-> Slice(ms)[k].name,
         expectation |-> Display(Value(Slice(ms)[k].acc)),
         uncertainty |-> Display(UncertaintySq(Slice(ms)[k].acc)),
         relative_uncertainty |->
            IF Value(Slice(ms)[k].acc) = Fin(0, 1)
            THEN Display(Fin(0, 1))
            ELSE Display(FDiv(UncertaintySq(Slice(ms)[k].acc),
                              FSquare(FAbs(Value(Slice(ms)[k].acc)))))]]
PrettyTable(ms) ==
    [k \in 1..Len(Slice(ms)) |->
        [name |-> Slice(ms)[k].name,
         expectation |-> Display(Value(Slice(ms)[k].acc)),
         uncertainty |-> Display(UncertaintySq(Slice(ms)[k].acc)),
         relative_uncertainty |->
            Display(FDiv(UncertaintySq(Slice(ms)[k].acc),
                         FSquare(FAbs(Value(Slice(ms)[k].acc)))))]]

\* `DebugExporter::pretty_table(self.aggregated.measures())`: the table is
\* drawn from the exporter's registry.
TableOfBatch(agg, ms) == PrettyTable(ms)
RenderedTable(agg, ms) == PrettyTable(agg)

\* `self.creation_timestamp.elapsed()`: Err (no value) when the clock reads
\* earlier than the timestamp.
Elapsed(ts, now) == IF now < ts THEN {} ELSE {now - ts}

\* How export ends when a println!, printstd or the unwrap of elapsed()
\* fails: all of them panic; export has no path that builds an ExportError.
ReportFailure == "panic"

\* The batches the simulation engine can hand over: up to MaxBatchLen pairs
\* of a name and the snapshot of a run of samples.
Inputs ==
    UNION {[1..len -> [name : MeasureNames, run : SampleRuns]] :
             len \in 0..MaxBatchLen}

\* Batches of at most one pair, over the wider choice of sample runs.
ValueInputs ==
    {<<>>} \cup [1..1 -> [name : MeasureNames, run : ValueRuns]]

\* Batches of up to MaxBatchLen one-sample pairs.
WorkerInputs ==
    UNION {[1..len -> [name : MeasureNames, run : WorkerRuns]] :
             len \in 0..MaxBatchLen}

BatchOf(input) ==
    [k \in 1..Len(input) |->
        [name |-> input[k].name, acc |-> ConsumeAll(ZeroAcc, input[k].run)]]

\* ----------------------------------------------------------------- history

RECURSIVE FirstSeen(_, _)
FirstSeen(order, names) ==
    IF names = <<>> THEN order
    ELSE FirstSeen(IF \E k \in 1..Len(order) : order[k] = Head(names)
                   THEN order ELSE Append(order, Head(names)),
                   Tail(names))

RECURSIVE CountIn(_, _)
CountIn(run, v) ==
    IF run = <<>> THEN 0
    ELSE (IF Head(run) = v THEN 1 ELSE 0) + CountIn(Tail(run), v)

RECURSIVE SumOver(_, _, _)
\* The sum of f[k] over the positions k <= len of a batch that carry name nm.
SumOver(f, nm, len) ==
    IF len = 0 THEN 0
    ELSE (IF f[len].name = nm THEN f[len].amount ELSE 0) + SumOver(f, nm, len - 1)

HandedBy(input, nm) ==
    SumOver([k \in 1..Len(input) |->
                [name |-> input[k].name, amount |-> Len(input[k].run)]],
            nm, Len(input))

PooledBy(input, nm, v) ==
    SumOver([k \in 1..Len(input) |->
                [name |-> input[k].name, amount |-> CountIn(input[k].run, v)]],
            nm, Len(input))

\* ----------------------------------------------------------------- actions

RECURSIVE SumHanded(_, _)
SumHanded(h, names) ==
    IF names = {} THEN 0
    ELSE LET nm == CHOOSE x \in names : TRUE
         IN  h[nm] + SumHanded(h, names \ {nm})

Init ==
    /\ \E now \in StartClock :
         /\ aggregated = NewExporter(now).aggregated
         /\ creation_timestamp = NewExporter(now).creation_timestamp
    /\ measures = <<>>
    /\ pc = "idle"
    /\ i = 1
    /\ samples_processed = 0
    /\ stdout = <<>>
    /\ failure = "none"
    /\ result = "none"
    /\ given = <<>>
    /\ seen = <<>>
    /\ handed = [nm \in MeasureNames |-> 0]
    /\ pool = [nm \in MeasureNames |-> [v \in SampleValues |-> 0]]
    /\ callers = {}
    /\ served = "nobody"

\* `fn export(&mut self, ..)`: the exclusive borrow lets a call begin only
\* while no other call on the exporter is in progress.
MayEnterShared(inside) == TRUE
MayEnter(inside) == inside = {}

\* A caller enters export(&mut self, measures): `let mut samples_processed
\* = 0` and the loop starts at the head of the batch.
ExportFrom(inputs, who) ==
    /\ MayEnter(callers)
    /\ \E w \in who \ callers : callers' = callers \cup {w}
    /\ \E input \in inputs :
         /\ measures' = BatchOf(input)
         /\ given' = BatchOf(input)
         /\ seen' = FirstSeen(seen, NamesOf(input))
         /\ handed' = [nm \in MeasureNames |-> handed[nm] + HandedBy(input, nm)]
         /\ pool' = [nm \in MeasureNames |->
                       [v \in SampleValues |-> pool[nm][v] + PooledBy(input, nm, v)]]
         /\ SumHanded(handed', MeasureNames) <= MaxSamples
    /\ pc' = "merge"
    /\ i' = 1
    /\ samples_processed' = SamplesProcessedAtEntry(aggregated)
    /\ stdout' = <<>>
    /\ failure' = "none"
    /\ UNCHANGED <<result, exporter, served>>

Export == ExportFrom(Inputs, OneCaller)

\* The same entry, with the batch drawn from ValueInputs.
ExportValues == ExportFrom(ValueInputs, OneCaller)

\* The same entry, open to every worker.
ExportWorkers == ExportFrom(WorkerInputs, Workers)

\* One iteration of the merge loop.  An index outside the registry makes
\* accumulator(..) panic.
MergeStep ==
    /\ pc = "merge"
    /\ ~LoopDone(measures, i)
    /\ LET measure == NextMeasure(measures, i)
           found == LookupOrCreate(aggregated, measure.name)
       IN  IF InBounds(found.reg, found.idx)
           THEN /\ aggregated' = MergeInto(found.reg, found.idx, measure.acc)
                /\ samples_processed' = SamplesProcessed(aggregated', found.idx)
                /\ measures' = MeasuresAfterMerge(measures, i)
                /\ i' = i + 1
                /\ UNCHANGED <<pc, failure>>
           ELSE /\ aggregated' = found.reg
                /\ pc' = "unwind"
                /\ failure' = "index"
                /\ UNCHANGED locals
    /\ UNCHANGED <<creation_timestamp, stdout, result>>
    /\ UNCHANGED <<hist, callers>>

\* One write to stdout: the line goes out, or the write fails and the
\* macro panics.  The attempt is recorded either way.
Write(line, next) ==
    \E ok \in BOOLEAN :
        /\ stdout' = Append(stdout, [line |-> line, ok |-> ok])
        /\ IF ok
           THEN pc' = next /\ UNCHANGED failure
           ELSE pc' = "unwind" /\ failure' = "write"

\* `println!();` once the loop is over.
PrintBlank ==
    /\ pc = "merge"
    /\ LoopDone(measures, i)
    /\ Write(<<"blank">>, "uptime")
    /\ UNCHANGED <<exporter, locals, result>>
    /\ UNCHANGED <<hist, callers>>

\* `println!("Simulation uptime: {} secs", ..elapsed().unwrap().as_secs())`
PrintUptime ==
    /\ pc = "uptime"
    /\ \E now \in Clock :
         IF Elapsed(creation_timestamp, now) = {}
         THEN /\ pc' = "unwind"
              /\ failure' = "clock"
              /\ UNCHANGED stdout
         ELSE \E secs \in Elapsed(creation_timestamp, now) :
                 Write(<<"uptime", DisplayCount(secs)>>, "samples")
    /\ UNCHANGED <<exporter, locals, result>>
    /\ UNCHANGED <<hist, callers>>

\* `println!("Samples processed: {}", samples_processed);`
PrintSamples ==
    /\ pc = "samples"
    /\ Write(<<"samples", DisplayCount(samples_processed)>>, "header")
    /\ UNCHANGED <<exporter, locals, result>>
    /\ UNCHANGED <<hist, callers>>

\* `println!("Aggregate values:");`
PrintHeader ==
    /\ pc = "header"
    /\ Write(<<"header">>, "table")
    /\ UNCHANGED <<exporter, locals, result>>
    /\ UNCHANGED <<hist, callers>>

\* `DebugExporter::pretty_table(self.aggregated.measures()).printstd();`
PrintTable ==
    /\ pc = "table"
    /\ Write(<<"table", RenderedTable(aggregated, measures)>>, "return")
    /\ UNCHANGED <<exporter, locals, result>>
    /\ UNCHANGED <<hist, callers>>

\* The call is over: its locals and its borrow of the batch are gone.
Leave(outcome) ==
    /\ pc' = "idle"
    /\ result' = outcome
    /\ measures' = <<>>
    /\ given' = <<>>
    /\ i' = 1
    /\ samples_processed' = 0
    /\ stdout' = <<>>
    /\ callers' = {}
    /\ served' = CHOOSE w \in callers : TRUE
    /\ UNCHANGED <<exporter, failure, seen, handed, pool>>

\* `Ok(())`
ReturnOk ==
    /\ pc = "return"
    /\ Leave("Ok")

\* A panic unwinds out of export; the exporter stays as the call left it.
Unwind ==
    /\ pc = "unwind"
    /\ Leave(ReportFailure)

Next ==
    \/ Export
    \/ MergeStep
    \/ PrintBlank
    \/ PrintUptime
    \/ PrintSamples
    \/ PrintHeader
    \/ PrintTable
    \/ ReturnOk
    \/ Unwind

Spec == Init /\ [][Next]_vars

\* The exporter fed one-pair batches over the wider choice of sample values.
NextValues ==
    \/ ExportValues
    \/ MergeStep
    \/ PrintBlank
    \/ PrintUptime
    \/ PrintSamples
    \/ PrintHeader
    \/ PrintTable
    \/ ReturnOk
    \/ Unwind

SpecValues == Init /\ [][NextValues]_vars

\* The exporter shared by several workers.
NextWorkers ==
    \/ ExportWorkers
    \/ MergeStep
    \/ PrintBlank
    \/ PrintUptime
    \/ PrintSamples
    \/ PrintHeader
    \/ PrintTable
    \/ ReturnOk
    \/ Unwind

SpecWorkers == Init /\ [][NextWorkers]_vars


\* ------------------------------------------------------------- properties

\* The merge loop of the call in progress still has pairs to visit.
Merging == pc = "merge" /\ i <= Len(given)

\* No call is in the middle of its merges.
Settled == ~Merging /\ failure # "index"

\* A table the call in progress has written (or tried to write).
Tables == {stdout[k].line[2] : k \in {j \in 1..Len(stdout) : stdout[j].line[1] = "table"}}

IsPrefix(s, t) == Len(s) <= Len(t) /\ \A k \in 1..Len(s) : s[k] = t[k]

\* The samples handed over under a name, as one run.
RECURSIVE Repeat(_, _)
Repeat(v, count) == IF count = 0 THEN <<>> ELSE <<v>> \o Repeat(v, count - 1)

RECURSIVE RunOf(_, _)
RunOf(p, values) ==
    IF values = {} THEN <<>>
    ELSE LET v == CHOOSE x \in values : \A y \in values : x <= y
         IN  Repeat(v, p[v]) \o RunOf(p, values \ {v})

\* What a fresh exporter holds for a name after one export of one batch
\* that carries all the samples of the name in a single snapshot.
SingleBatch(nm) ==
    LET found == LookupOrCreate(NewExporter(0).aggregated, nm)
    IN  MergeInto(found.reg, found.idx,
                  ConsumeAll(ZeroAcc, RunOf(pool[nm], SampleValues)))[found.idx].acc

\* The sample counts of the pairs of a batch that carry a name, summed.
CountsIn(batch, nm) ==
    SumOver([k \in 1..Len(batch) |->
                [name |-> batch[k].name, amount |-> NumOfSamples(batch[k].acc)]],
            nm, Len(batch))

\* C1: the registry never holds two accumulators for one name, and once the
\* merges of a call are done its size is the number of distinct names handed
\* over so far.
C1_OneAccumulatorPerName ==
    /\ \A j, k \in 1..Len(aggregated) :
          aggregated[j].name = aggregated[k].name => j = k
    /\ Settled => Len(aggregated) = Cardinality({seen[k] : k \in 1..Len(seen)})

\* C1 witness: a later call whose batch names one measure twice, with
\* another measure registered before, has merged and printed.
C1_Witness ==
    /\ pc = "return"
    /\ result = "Ok"
    /\ Len(given) = 2
    /\ given[1].name = given[2].name
    /\ Len(aggregated) = 2

\* C2: once the merges of a call are done, every registered accumulator
\* counts exactly the samples of all the pairs handed over under its name,
\* and every name with samples handed over is registered.
C2_CountsAreSummed ==
    Settled =>
        /\ \A k \in 1..Len(aggregated) :
              NumOfSamples(aggregated[k].acc) = handed[aggregated[k].name]
        /\ \A nm \in MeasureNames :
              handed[nm] > 0 => \E k \in 1..Len(aggregated) : aggregated[k].name = nm

\* C2 witness: a second call adds one sample to a name that had two.
C2_Witness ==
    /\ pc = "return"
    /\ result = "Ok"
    /\ Len(given) = 1
    /\ NumOfSamples(given[1].acc) = 1
    /\ \E k \in 1..Len(aggregated) :
          /\ aggregated[k].name = given[1].name
          /\ NumOfSamples(aggregated[k].acc) = 3

\* C3: throughout a call and at its return the batch is what the caller
\* handed over: same names, same order, same accumulator states.
C3_BatchUntouched == measures = given

\* C3 witness: a call returns after merging a two-pair batch with samples.
C3_Witness ==
    /\ pc = "return"
    /\ Len(given) = 2
    /\ NumOfSamples(given[1].acc) > 0
    /\ NumOfSamples(given[2].acc) > 0
    /\ \E k \in 1..Len(aggregated) : NumOfSamples(aggregated[k].acc) > 0

\* C4: the registry lists the names in the order they were first handed
\* over (a prefix of that order while a call is merging), and every table
\* written has its rows in that order.
C4_FirstSeenOrder ==
    /\ IsPrefix(NamesOf(aggregated), seen)
    /\ Settled => NamesOf(aggregated) = seen
    /\ \A t \in Tables : [k \in 1..Len(t) |-> t[k].name] = seen

\* C4 witness: a later batch names the two measures in the opposite order.
C4_Witness ==
    /\ pc = "return"
    /\ seen = <<"spin", "energy">>
    /\ NamesOf(given) = <<"energy", "spin">>
    /\ Tables # {}

\* C5: a table written by a call has one row per registered name, names of
\* earlier calls included, and each row shows the values of the registry's
\* accumulator after the merges of the call.
C5_TableIsFullState ==
    \A t \in Tables :
        /\ Len(t) = Len(seen)
        /\ Len(t) = Len(aggregated)
        /\ \A k \in 1..Len(t) :
              /\ t[k].name = aggregated[k].name
              /\ t[k].expectation = Display(Value(aggregated[k].acc))
              /\ t[k].uncertainty = Display(UncertaintySq(aggregated[k].acc))
              /\ NumOfSamples(aggregated[k].acc) = handed[aggregated[k].name]

\* C5 witness: the table of a call shows a name its batch does not carry
\* and, for the name it carries, an estimate other than the batch's.
C5_Witness ==
    /\ pc = "return"
    /\ Len(given) = 1
    /\ \E t \in Tables :
          /\ Len(t) = 2
          /\ \E k \in 1..2 :
                /\ t[k].name = given[1].name
                /\ t[k].expectation # Display(Value(given[1].acc))

\* C6: once a call has attempted a write, its loop is past the last pair
\* and every pair of the batch is in the registry; while pairs remain to be
\* merged nothing has been written.
C6_MergeBeforeOutput ==
    stdout # <<>> =>
        /\ i = Len(given) + 1
        /\ \A nm \in MeasureNames :
              CountsIn(given, nm) > 0 =>
                 \E k \in 1..Len(aggregated) :
                    /\ aggregated[k].name = nm
                    /\ NumOfSamples(aggregated[k].acc) = handed[nm]

\* C6 witness: the first write of a call with a two-pair batch has happened.
C6_Witness ==
    /\ pc = "uptime"
    /\ Len(stdout) = 1
    /\ Len(given) = 2
    /\ NumOfSamples(given[2].acc) > 0

\* C7 (as claimed): a call whose reporting stage failed ends with Err.
C7_ReportingFailureIsErr ==
    (pc = "idle" /\ failure \in {"write", "clock"}) => result = "Err"

\* C8: after a call failed at the reporting stage the registry holds all
\* the samples handed over so far, those of the failed call included, and
\* a table written by a later call shows them.
C8_FailureKeepsMerges ==
    /\ (pc \in {"unwind", "idle"} /\ failure \in {"write", "clock"}) =>
          /\ NamesOf(aggregated) = seen
          /\ \A k \in 1..Len(aggregated) :
                aggregated[k].acc = ConsumeAll(ZeroAcc,
                                       RunOf(pool[aggregated[k].name], SampleValues))
    /\ result = "panic" =>
          \A t \in Tables : \A k \in 1..Len(t) :
             t[k].expectation =
                Display(Value(ConsumeAll(ZeroAcc, RunOf(pool[t[k].name], SampleValues))))

\* C8 witness: the call after a failed one has written its table, with
\* more samples under a name than its own batch carries.
C8_Witness ==
    /\ pc = "return"
    /\ result = "panic"
    /\ Tables # {}
    /\ \E k \in 1..Len(aggregated) :
          NumOfSamples(aggregated[k].acc) > CountsIn(given, aggregated[k].name)

\* C9: no step removes, renames or moves a registry entry, and no step
\* lowers the sample count of one.
C9_RegistryOnlyGrows ==
    [][/\ Len(aggregated') >= Len(aggregated)
       /\ \A k \in 1..Len(aggregated) :
             /\ aggregated'[k].name = aggregated[k].name
             /\ NumOfSamples(aggregated'[k].acc) >= NumOfSamples(aggregated[k].acc)]_vars

\* C9 witness: a later call has merged a one-sample snapshot into an
\* accumulator that held two samples.
C9_Witness ==
    /\ pc = "return"
    /\ result # "none"
    /\ Len(aggregated) = 2
    /\ \E k \in 1..Len(given) :
          /\ NumOfSamples(given[k].acc) = 1
          /\ \E j \in 1..Len(aggregated) :
                /\ aggregated[j].name = given[k].name
                /\ NumOfSamples(aggregated[j].acc) >= 3

RelativeSq(acc) ==
    IF acc.n <= 1 THEN NaN
    ELSE IF acc.s1 = 0
         THEN (IF acc.n * acc.s2 = 0 THEN NaN ELSE Inf(1))
         ELSE Fin(acc.n * acc.s2 - acc.s1 * acc.s1, (acc.n - 1) * acc.s1 * acc.s1)

\* C11: in every table written, the relative uncertainty of a row is
\* uncertainty / |estimate| of the registry's accumulator after the merges,
\* and a row whose estimate is exactly 0 shows inf or NaN, never a number.
C11_ZeroEstimateNotFinite ==
    \A t \in Tables : \A k \in 1..Len(t) :
        /\ t[k].relative_uncertainty = Display(RelativeSq(aggregated[k].acc))
        /\ (aggregated[k].acc.n > 0 /\ aggregated[k].acc.s1 = 0) =>
              /\ t[k].expectation = <<"num", 0, 1>>
              /\ t[k].relative_uncertainty \in {<<"inf">>, <<"NaN">>}

\* C11 witness: a table with two rows of estimate 0, one with a positive
\* uncertainty (inf) and one with uncertainty 0 (NaN).
C11_Witness ==
    \E t \in Tables :
        /\ Len(t) = 2
        /\ \E j, k \in 1..2 :
              /\ t[j].expectation = <<"num", 0, 1>>
              /\ t[k].expectation = <<"num", 0, 1>>
              /\ t[j].relative_uncertainty = <<"inf">>
              /\ t[k].relative_uncertainty = <<"NaN">>
              /\ t[k].uncertainty = <<"num", 0, 1>>


\* C12: at most one caller is inside export at any time, the steps taken
\* are those of that one call, and once its merges are done the registry
\* is what the whole calls so far give in the order they were made.
C12_OneCallAtATime ==
    /\ Cardinality(callers) <= 1
    /\ (pc = "idle") <=> (callers = {})
    /\ Settled =>
          /\ NamesOf(aggregated) = seen
          /\ \A k \in 1..Len(aggregated) :
                /\ NumOfSamples(aggregated[k].acc) = handed[aggregated[k].name]
                /\ aggregated[k].acc.s1 =
                      ConsumeAll(ZeroAcc, RunOf(pool[aggregated[k].name], SampleValues)).s1

\* C12 witness: the worker is between two merges of its call, which
\* follows a call of the engine that left samples in the registry.
C12_Witness ==
    /\ pc = "merge"
    /\ i = 2
    /\ Len(given) = 2
    /\ callers = {"worker"}
    /\ served = "engine"
    /\ \E k \in 1..Len(aggregated) :
          NumOfSamples(aggregated[k].acc) > CountsIn(given, aggregated[k].name)


\* The 'Samples processed' figures the call in progress has written.
SampleLines ==
    {stdout[k].line[2] : k \in {j \in 1..Len(stdout) : stdout[j].line[1] = "samples"}}

\* C13: for a call with a non-empty batch the 'Samples processed' figure is
\* the running total, over all calls so far, of the samples handed over
\* under the name of the last pair of the batch.
C13_FigureIsLastTouched ==
    given # <<>> =>
        \A line \in SampleLines :
            line = DisplayCount(handed[given[Len(given)].name])

\* C13 witness: the figure (3) is neither the last snapshot's count (1) nor
\* the sum over the batch (2).
C13_Witness ==
    /\ pc = "return"
    /\ Len(given) = 2
    /\ given[1].name # given[2].name
    /\ NumOfSamples(given[1].acc) = 1
    /\ NumOfSamples(given[2].acc) = 1
    /\ SampleLines = {DisplayCount(3)}

\* C14: a step changes a registry entry only if the batch of the call in
\* progress carries its name, and adds entries only under names of the
\* batch; with an empty batch the registry stays as it is.
C14_OnlyBatchNamesChange ==
    [][/\ Len(aggregated') >= Len(aggregated)
       /\ \A k \in 1..Len(aggregated') :
             (k > Len(aggregated) \/ aggregated'[k] # aggregated[k]) =>
                \E j \in 1..Len(given) : given[j].name = aggregated'[k].name
       /\ given = <<>> => aggregated' = aggregated]_vars

\* C14 witness: a one-pair call has merged while the registry holds a
\* second measure with samples that the batch does not name.
C14_Witness ==
    /\ pc = "return"
    /\ Len(given) = 1
    /\ NumOfSamples(given[1].acc) > 0
    /\ \E k \in 1..Len(aggregated) :
          /\ aggregated[k].name # given[1].name
          /\ NumOfSamples(aggregated[k].acc) = 2

\* C15: no call fails on an index, and the index each iteration is about
\* to pass to accumulator(..) is one of the registry after find / register,
\* the one of the entry under the measure's name.
C15_IndexInBounds ==
    /\ failure # "index"
    /\ (pc = "merge" /\ i <= Len(measures)) =>
          LET found == LookupOrCreate(aggregated, measures[i].name)
          IN  /\ InBounds(found.reg, found.idx)
              /\ found.reg[found.idx].name = measures[i].name

\* C15 witness: in a call after an earlier one, the second iteration is
\* about to register a name the registry does not hold yet.
C15_Witness ==
    /\ pc = "merge"
    /\ i = 2
    /\ Len(measures) = 2
    /\ result # "none"
    /\ Len(aggregated) = 1
    /\ NumOfSamples(aggregated[1].acc) > 1
    /\ Find(aggregated, measures[2].name) = {}

\* C16: a call with an empty batch writes 'Samples processed: 0', and its
\* table still has a row for every registered measure.
C16_EmptyBatchShowsZero ==
    given = <<>> =>
        /\ \A line \in SampleLines : line = <<"int", 0>>
        /\ pc \in {"header", "table", "return"} => SampleLines # {}
        /\ \A t \in Tables :
              [k \in 1..Len(t) |-> t[k].name] = NamesOf(aggregated)

\* C16 witness: an empty-batch call has written figure and table while the
\* registry holds four samples.
C16_Witness ==
    /\ pc = "return"
    /\ given = <<>>
    /\ SampleLines = {<<"int", 0>>}
    /\ \E t \in Tables : Len(t) = 2
    /\ SumHanded(handed, MeasureNames) = 4

====
